---- MODULE Spec2Model ----
(***************************************************************************)
(* Model of src/main.py: the fixed-interval telemetry collector.  One      *)
(* iteration of the main loop is a sequence of steps (probe and reconnect, *)
(* spool drain, sensing and batch building, delivery with bounded retries, *)
(* spooling of an undelivered batch, cadence sleep).  The database, the    *)
(* network and the clock are the environment: every probe, client          *)
(* creation and write has a nondeterministic outcome; the sensor reads and *)
(* every write take a nondeterministic duration in whole seconds (probes,  *)
(* client creation and the 0.1 s pause of the drain are not timed).        *)
(* Spec starts from nominal storage: the spool directory exists and file   *)
(* operations succeed; the storage fault branches are in the operators.    *)
(***************************************************************************)
EXTENDS Integers, Sequences, FiniteSets, TLC

\* ------------------------------------------------------------ constants
\* Program constants (environment-configured in the source; the values are
\* the defaults except MAX_FAILED_ENTRIES, set to a small capacity).
INTERVAL_SEC == 60
MAX_RETRIES == 3
RETRY_DELAY == 2
MAX_FAILED_ENTRIES == 3
SEND_MARGIN == 5

\* Bound of the model: number of iterations of the main loop explored.
MaxCycles == 4

\* Durations (seconds) the environment may take.
SenseDur == {1, 52, 56}        \* sensor reads and batch building
DrainSendDur == {0, 20}        \* one write of a spooled entry
SendDur == {0, 2, 3}           \* one write of the current batch

VARIABLES
    pc,             \* position in the main loop / called function
    cycle,          \* number of the running iteration; stands for its timestamp
    client,         \* "none" or "conn": the InfluxDBClient handle of the loop
    elapsed,        \* time.time() - cycle_start_time
    points_data,    \* TRUE iff the batch built in this cycle is non-empty
    failed_data,    \* retry_failed_data: the list loaded from the spool
    idx,            \* retry_failed_data: position of the entry being sent (1-based)
    success_count,  \* retry_failed_data
    fail_count,     \* retry_failed_data
    attempt,        \* send_with_retry: loop variable
    max_time,       \* send_with_retry: deadline budget
    swr_elapsed,    \* send_with_retry: time.time() - start_time
    mainFile,       \* content of FAILED_DATA_FILE
    cwdFile,        \* content of ./sensor_failed_data.json
    dirExists,      \* directory of FAILED_DATA_FILE exists
    diskFaults,     \* environment: storage operations may fail
    \* ---- observation (history) variables
    delivered,      \* batches acknowledged by the database, in order
    sends,          \* send_to_influxdb calls made for the current batch
    spooled,        \* save_failed_data was called with the current batch
    swr_result,     \* "none", "true", "false": return value of send_with_retry
    handleFailed,   \* a send on the current handle object has failed
    handleDrained,  \* retry_failed_data was called when the handle was created
    reach,          \* result of this cycle's reachability probe (line 432)
    fault,          \* a send or a client creation failed in this cycle
    outageRun,      \* consecutive unreachable cycles with a batch, up to the last
    healthy,        \* every cycle so far: reachable, no fault, non-empty batch
    budget,         \* this cycle reached line 570 with more than the margin left
    timely,         \* every cycle so far reached line 570 with the margin left
    saveRun,        \* entries given to save_failed_data since the last removal
    aborted,        \* the previous iteration was ended by an exception
    interrupted,    \* KeyboardInterrupt was raised
    last_sleep,     \* seconds slept at the end of the previous iteration (-1: none)
    slept,          \* seconds of the last backoff sleep of this cycle (-1: none)
    \* ---- state of the functions specified on their own
    last_good,      \* _last_good: metric name -> last accepted value or "None"
    san_call,       \* the last call of sanitize: name, new, old, returned value
    accepted,       \* per metric, the last candidate that passed the rules
    st_call,        \* the last call of a spool function and its outcome
    med_reads,      \* median_read: the outcomes of fn() so far in this call
    vals,           \* median_read: the list vals
    med_ret,        \* median_read: the returned value, or pending
    \* ---- the horizon of the run
    wrap            \* TRUE: cycles past MaxCycles go on, numbered MaxCycles

fileVars == <<mainFile, cwdFile, dirExists, diskFaults>>
drainVars == <<failed_data, idx, success_count, fail_count>>
swrVars == <<attempt, max_time, swr_elapsed>>
obsVars == <<delivered, sends, spooled, swr_result, handleFailed,
             handleDrained, reach, fault, outageRun, healthy, budget, timely,
             saveRun>>
cadVars == <<aborted, interrupted, last_sleep, slept>>
sanVars == <<last_good, san_call, accepted>>
medVars == <<med_reads, vals, med_ret>>
pureVars == <<sanVars, st_call, medVars>>
progVars == <<pc, cycle, client, elapsed, points_data, drainVars, swrVars,
              obsVars, cadVars>>
loopVars == <<progVars, fileVars>>
vars == <<loopVars, pureVars, wrap>>

\* ------------------------------------------------------------ sequences
Range(s) == {s[i] : i \in 1..Len(s)}
LastN(s, n) == IF Len(s) > n THEN SubSeq(s, Len(s) - n + 1, Len(s)) ELSE s

\* ------------------------------------------------------------ the spool file
NoFile == [kind |-> "absent", data |-> <<>>]
ListFile(s) == [kind |-> "list", data |-> s]

\* json.load of one file: a list is returned as is; other JSON content gives
\* []; unparsable content raises JSONDecodeError, which is caught and gives [].
ReadFile(f) == IF f.kind = "list" THEN f.data ELSE <<>>

\* load_failed_data: FAILED_DATA_FILE if it exists, else the file in the
\* current directory if it exists, else [].
load_failed_data(main, cwd) ==
    IF main.kind # "absent" THEN ReadFile(main)
    ELSE IF cwd.kind # "absent" THEN ReadFile(cwd)
    ELSE <<>>

\* The store as the program sees it.
Store == load_failed_data(mainFile, cwdFile)

\* Variant of Truncate: the slice keeps the head of the list, failed_data[:MAX].
TruncateKeepsOldest(s) ==
    IF Len(s) > MAX_FAILED_ENTRIES
    THEN SubSeq(s, 1, MAX_FAILED_ENTRIES)
    ELSE s

\* failed_data[-MAX_FAILED_ENTRIES:] when the list is longer than the cap.
Truncate(s) ==
    IF Len(s) > MAX_FAILED_ENTRIES
    THEN SubSeq(s, Len(s) - MAX_FAILED_ENTRIES + 1, Len(s))
    ELSE s

\* save_failed_data(points_data, timestamp) with the outcome of os.makedirs
\* (mk) and of open/json.dump (w).  When the directory is missing and
\* makedirs succeeds, failed_file is never assigned: open(failed_file) raises
\* UnboundLocalError, caught by the outer handler, and nothing is written.
save_failed_data(entry, main, cwd, dir, mk, w) ==
    LET data == Truncate(Append(load_failed_data(main, cwd), entry))
    IN  IF ~dir
        THEN IF mk
             THEN [main |-> main, cwd |-> cwd, dir |-> TRUE]
             ELSE [main |-> main,
                   cwd |-> IF w THEN ListFile(data) ELSE cwd,
                   dir |-> dir]
        ELSE [main |-> IF w THEN ListFile(data) ELSE main,
              cwd |-> cwd, dir |-> dir]

\* Variants of remaining_data: the whole list is written back; the failed
\* entry itself is left out (failed_data[idx+1:]).
remaining_data_all(fd, i) == fd
remaining_data_next(fd, i) == SubSeq(fd, i + 1, Len(fd))

\* failed_data[idx:] (idx is 1-based here).
remaining_data(fd, i) == SubSeq(fd, i, Len(fd))

\* retry_failed_data, failure branch: the unsent suffix is written to
\* FAILED_DATA_FILE, or to the current directory when the directory is missing.
write_remaining(fd, i, main, cwd, dir, w) ==
    IF ~dir
    THEN [main |-> main,
          cwd |-> IF w THEN ListFile(remaining_data(fd, i)) ELSE cwd,
          dir |-> dir]
    ELSE [main |-> IF w THEN ListFile(remaining_data(fd, i)) ELSE main,
          cwd |-> cwd, dir |-> dir]

\* Variant of clear_failed_data: no file is removed.
clear_failed_data_noop(main, cwd, dir, w) ==
    [main |-> main, cwd |-> cwd, dir |-> dir]

\* clear_failed_data: removes FAILED_DATA_FILE if it exists, else the file in
\* the current directory if it exists; a failing os.remove is swallowed.
clear_failed_data(main, cwd, dir, w) ==
    IF main.kind # "absent"
    THEN [main |-> IF w THEN NoFile ELSE main, cwd |-> cwd, dir |-> dir]
    ELSE IF cwd.kind # "absent"
    THEN [main |-> main, cwd |-> IF w THEN NoFile ELSE cwd, dir |-> dir]
    ELSE [main |-> main, cwd |-> cwd, dir |-> dir]

\* Outcomes a storage operation can have in the current environment.
DiskOutcomes == IF diskFaults THEN BOOLEAN ELSE {TRUE}

SetFiles(r) ==
    /\ mainFile' = r.main
    /\ cwdFile' = r.cwd
    /\ dirExists' = r.dir
    /\ diskFaults' = diskFaults


\* ------------------------------------------------------------ the spool functions called on their own
\* Contents a spool file can have beside a list: valid JSON that is not a
\* list, text that is not JSON, and a file that cannot be opened for reading.
FileKinds == {"absent", "list", "nonlist", "corrupt", "unreadable"}

\* The exception the try block of load_failed_data raises: open() on a file
\* that cannot be read, json.load on text that is not JSON.
FileRaises(f) ==
    IF f.kind = "unreadable" THEN "OSError"
    ELSE IF f.kind = "corrupt" THEN "JSONDecodeError"
    ELSE "none"

LoadRaises(main, cwd) ==
    IF main.kind # "absent" THEN FileRaises(main)
    ELSE IF cwd.kind # "absent" THEN FileRaises(cwd)
    ELSE "none"

\* Variant of LoadHandlers: only the JSON error is handled.
LoadHandlersJsonOnly == {"JSONDecodeError"}

\* The except clauses of the three functions (lines 309 and 312, 282, 327).
LoadHandlers == {"JSONDecodeError", "Exception"}
SaveHandlers == {"Exception"}
ClearHandlers == {"Exception"}

\* The exception that leaves a function whose try block raised exc.
Escapes(exc, handlers) ==
    IF exc = "none" \/ exc \in handlers \/ "Exception" \in handlers
    THEN "none"
    ELSE exc

\* The exception the try block of save_failed_data raises: one escaping from
\* load_failed_data; failed_file unbound after a successful makedirs; a
\* failing open or json.dump.
SaveRaises(main, cwd, dir, mk, w) ==
    IF Escapes(LoadRaises(main, cwd), LoadHandlers) # "none"
    THEN Escapes(LoadRaises(main, cwd), LoadHandlers)
    ELSE IF ~dir /\ mk THEN "UnboundLocalError"
    ELSE IF ~w THEN "OSError"
    ELSE "none"

\* The exception the try block of clear_failed_data raises: a failing
\* os.remove.
ClearRaises(main, cwd, w) ==
    IF (main.kind # "absent" \/ cwd.kind # "absent") /\ ~w
    THEN "OSError"
    ELSE "none"

NoStorageCall ==
    [fn |-> "none", entry |-> 0, dir |-> TRUE, mk |-> TRUE, w |-> TRUE,
     before |-> <<>>, ret |-> <<>>, raised |-> "none"]

\* Entries handed to save_failed_data and contents the files start with.
StorageEntries == {1, 2}
InitialFiles ==
    {NoFile, ListFile(<<>>), ListFile(<<1>>), ListFile(<<2, 1, 2>>)} \cup
    {[kind |-> k, data |-> <<>>] : k \in FileKinds \ {"absent", "list"}}

SaveCall ==
    /\ \E entry \in StorageEntries :
         \E mk \in DiskOutcomes, w \in DiskOutcomes :
           /\ SetFiles(save_failed_data(entry, mainFile, cwdFile, dirExists,
                                        mk, w))
           /\ st_call' = [fn |-> "save", entry |-> entry, dir |-> dirExists,
                          mk |-> mk, w |-> w, before |-> Store, ret |-> <<>>,
                          raised |-> Escapes(SaveRaises(mainFile, cwdFile,
                                                        dirExists, mk, w),
                                             SaveHandlers)]
    /\ UNCHANGED <<progVars, sanVars, medVars, wrap>>

LoadCall ==
    /\ st_call' = [fn |-> "load", entry |-> 0, dir |-> dirExists,
                   mk |-> TRUE, w |-> TRUE, before |-> Store,
                   ret |-> load_failed_data(mainFile, cwdFile),
                   raised |-> Escapes(LoadRaises(mainFile, cwdFile),
                                      LoadHandlers)]
    /\ UNCHANGED <<progVars, fileVars, sanVars, medVars, wrap>>

ClearCall ==
    /\ \E w \in DiskOutcomes :
         /\ SetFiles(clear_failed_data(mainFile, cwdFile, dirExists, w))
         /\ st_call' = [fn |-> "clear", entry |-> 0, dir |-> dirExists,
                        mk |-> TRUE, w |-> w, before |-> Store, ret |-> <<>>,
                        raised |-> Escapes(ClearRaises(mainFile, cwdFile, w),
                                           ClearHandlers)]
    /\ UNCHANGED <<progVars, sanVars, medVars, wrap>>

NextStorage == SaveCall \/ LoadCall \/ ClearCall

\* ------------------------------------------------------------ sanitize
\* A value a sensor read can give: None, a non-finite float or a number.
None == [t |-> "None", v |-> 0]
NaN == [t |-> "nan", v |-> 0]
PosInf == [t |-> "inf", v |-> 0]
NegInf == [t |-> "-inf", v |-> 0]
Num(n) == [t |-> "num", v |-> n]
IsNonFinite(x) == x.t \in {"nan", "inf", "-inf"}
Abs(x) == IF x < 0 THEN -x ELSE x

\* The metrics modelled and the arguments of their sanitize calls (lines 463
\* and 464; min_v, max_v and max_step are never None in the calls made).
Metrics == {"humidity", "pressure"}
SanitizeArgs ==
    [humidity |-> [min_v |-> 0, max_v |-> 100, max_step |-> 3],
     pressure |-> [min_v |-> 800, max_v |-> 1100, max_step |-> 1]]

\* Candidates the environment hands to sanitize.
Candidates ==
    [humidity |-> {None, NaN, PosInf} \cup
                  {Num(n) : n \in {-1, 0, 2, 3, 6, 7, 100, 101}},
     pressure |-> {None, NaN, NegInf} \cup
                  {Num(n) : n \in {799, 800, 801, 803, 1100, 1101}}]

\* Variant of Rejected: the upper bound is not tested.
RejectedNoMax(old, new, min_v, max_v, max_step) ==
    \/ new = None
    \/ IsNonFinite(new)
    \/ new.v < min_v
    \/ (old # None /\ Abs(new.v - old.v) > max_step)

\* Lines 106-117: the candidate is discarded.
Rejected(old, new, min_v, max_v, max_step) ==
    \/ new = None
    \/ IsNonFinite(new)
    \/ new.v < min_v
    \/ new.v > max_v
    \/ (old # None /\ Abs(new.v - old.v) > max_step)

\* Variant of sanitize: a candidate discarded for its step is stored all the
\* same.
sanitize_stores_rejected(lg, name, new, min_v, max_v, max_step) ==
    IF Rejected(lg[name], new, min_v, max_v, max_step)
    THEN [ret |-> lg[name],
          lg |-> IF new.t # "num" \/ new.v < min_v \/ new.v > max_v
                 THEN lg ELSE [lg EXCEPT ![name] = new]]
    ELSE [ret |-> new, lg |-> [lg EXCEPT ![name] = new]]

\* sanitize (lines 98-120): the returned value and the new _last_good.
sanitize(lg, name, new, min_v, max_v, max_step) ==
    IF Rejected(lg[name], new, min_v, max_v, max_step)
    THEN [ret |-> lg[name], lg |-> lg]
    ELSE [ret |-> new, lg |-> [lg EXCEPT ![name] = new]]

NoCall == [name |-> "none", new |-> None, old |-> None, ret |-> None]

\* _last_good = {} (line 96).
InitSanitize ==
    /\ last_good = [n \in Metrics |-> None]
    /\ san_call = NoCall
    /\ accepted = [n \in Metrics |-> None]

\* The rules of the sanitizer as the specification states them: the candidate
\* is a finite number within [min, max] and, when a previous value exists,
\* within max_step of it.
Passes(prev, new, a) ==
    /\ new.t = "num"
    /\ a.min_v <= new.v /\ new.v <= a.max_v
    /\ (prev.t = "None" \/ Abs(new.v - prev.v) <= a.max_step)

\* One call sanitize(name, new, min_v=.., max_v=.., max_step=..).
SanitizeCall ==
    /\ \E name \in Metrics :
         \E new \in Candidates[name] :
           LET a == SanitizeArgs[name]
               r == sanitize(last_good, name, new, a.min_v, a.max_v, a.max_step)
           IN  /\ last_good' = r.lg
               /\ san_call' = [name |-> name, new |-> new,
                               old |-> last_good[name], ret |-> r.ret]
               /\ accepted' = IF Passes(accepted[name], new, a)
                              THEN [accepted EXCEPT ![name] = new]
                              ELSE accepted
    /\ UNCHANGED <<loopVars, st_call, medVars, wrap>>

NextSanitize == SanitizeCall

\* ------------------------------------------------------------ median_read
\* n of median_read(fn, n=5).
MEDIAN_N == 5

Raise == [t |-> "raise", v |-> 0]
Pending == [t |-> "pending", v |-> 0]

\* What one fn() can give: a number, None, NaN, or an exception.  The numbers
\* are even so that the mean of two of them is a whole number.
SampleValues == {0, 2, 4, 20}
ReadOutcomes == {Num(n) : n \in SampleValues} \cup {None, NaN, Raise}

\* Variant of Median: the middle element of the list as read, unsorted.
MedianUnsorted(s) ==
    IF Len(s) % 2 = 1
    THEN s[(Len(s) + 1) \div 2]
    ELSE (s[Len(s) \div 2] + s[Len(s) \div 2 + 1]) \div 2

\* statistics.median of a non-empty list: the middle element of the sorted
\* list, or the mean of the two middle ones.
Median(s) ==
    LET t == SortSeq(s, LAMBDA x, y : x < y)
    IN  IF Len(t) % 2 = 1
        THEN t[(Len(t) + 1) \div 2]
        ELSE (t[Len(t) \div 2] + t[Len(t) \div 2 + 1]) \div 2

\* Line 85 and the entry of the call.
InitMedian ==
    /\ med_reads = <<>>
    /\ vals = <<>>
    /\ med_ret = Pending

\* Lines 86-93: one pass of the loop; a valid sample is appended to vals.
MedianReadSample ==
    /\ Len(med_reads) < MEDIAN_N
    /\ \E v \in ReadOutcomes :
         /\ med_reads' = Append(med_reads, v)
         /\ vals' = IF v.t = "num" THEN Append(vals, v.v) ELSE vals
    /\ UNCHANGED <<med_ret, loopVars, sanVars, st_call, wrap>>

\* Line 94: return statistics.median(vals) if vals else None.
MedianReturn ==
    /\ Len(med_reads) = MEDIAN_N
    /\ med_ret = Pending
    /\ med_ret' = IF vals # <<>> THEN Num(Median(vals)) ELSE None
    /\ UNCHANGED <<med_reads, vals, loopVars, sanVars, st_call, wrap>>

NextMedian == MedianReadSample \/ MedianReturn

\* ------------------------------------------------------------ initial state
\* After module initialisation (lines 421-422): no client, nothing built.
InitProgram ==
    /\ pc = "start"
    /\ cycle = 0
    /\ client = "none"
    /\ elapsed = 0
    /\ points_data = FALSE
    /\ failed_data = <<>> /\ idx = 1 /\ success_count = 0 /\ fail_count = 0
    /\ attempt = 0 /\ max_time = 0 /\ swr_elapsed = 0
    /\ delivered = <<>> /\ sends = 0 /\ spooled = FALSE /\ swr_result = "none"
    /\ handleFailed = FALSE /\ handleDrained = FALSE
    /\ reach = FALSE /\ fault = FALSE /\ outageRun = 0
    /\ healthy = TRUE /\ budget = FALSE /\ timely = TRUE /\ saveRun = <<>>
    /\ aborted = FALSE /\ interrupted = FALSE
    /\ last_sleep = -1 /\ slept = -1

\* Nominal storage: the directory of FAILED_DATA_FILE exists (by default it
\* is the directory of LOG_FILE, which logging.FileHandler has just opened),
\* the spool is empty and storage operations succeed.
InitLoop ==
    /\ InitProgram
    /\ mainFile = NoFile /\ cwdFile = NoFile
    /\ dirExists = TRUE /\ diskFaults = FALSE

Init ==
    /\ InitLoop
    /\ InitSanitize
    /\ InitMedian
    /\ st_call = NoStorageCall
    /\ wrap = FALSE

\* The same program run without an end: cycles past MaxCycles go on.
InitLive ==
    /\ InitLoop
    /\ InitSanitize
    /\ InitMedian
    /\ st_call = NoStorageCall
    /\ wrap = TRUE

\* ------------------------------------------------------------ the histories
\* The record of the acknowledged batches and of the batches handed to
\* save_failed_data.  In a run without an end the histories are not kept.
Acked(d, b) == IF wrap THEN d ELSE Append(d, b)
Saved(r, b) == IF wrap THEN r ELSE Append(r, b)

\* ------------------------------------------------------------ cycle start
\* Lines 426-429 and the reset of the per-cycle locals.
Begin ==
    /\ pc = "start"
    /\ cycle < MaxCycles \/ wrap
    /\ cycle' = IF cycle < MaxCycles THEN cycle + 1 ELSE cycle
    /\ elapsed' = 0
    /\ points_data' = FALSE
    /\ attempt' = 0 /\ max_time' = 0 /\ swr_elapsed' = 0
    /\ sends' = 0 /\ spooled' = FALSE /\ swr_result' = "none"
    /\ budget' = FALSE
    /\ last_sleep' = -1 /\ slept' = -1
    /\ UNCHANGED <<delivered, outageRun, timely, saveRun, aborted, interrupted>>
    /\ UNCHANGED <<pureVars, wrap>>

NoDrain ==
    failed_data' = <<>> /\ idx' = 1 /\ success_count' = 0 /\ fail_count' = 0

\* Lines 432-436: the probe fails; the handle is dropped.
CycleStartUnreachable ==
    /\ Begin
    /\ client' = "none"
    /\ handleFailed' = FALSE /\ handleDrained' = FALSE
    /\ reach' = FALSE /\ fault' = FALSE /\ healthy' = FALSE
    /\ NoDrain
    /\ pc' = "sense"
    /\ UNCHANGED fileVars

\* Lines 432-438: the probe succeeds and a client is held: nothing to do.
CycleStartConnected ==
    /\ Begin
    /\ client = "conn"
    /\ reach' = TRUE /\ fault' = FALSE
    /\ NoDrain
    /\ pc' = "sense"
    /\ UNCHANGED <<client, handleFailed, handleDrained, healthy, fileVars>>

\* Lines 437-449: the probe succeeds and no client is held.  A client is
\* created (create_influxdb_client probes again and may return None); on
\* success was_connected is False here, so retry_failed_data is entered:
\* it loads the spool and returns (0, 0) at once when the list is empty.
CycleStartReconnect ==
    /\ Begin
    /\ client = "none"
    /\ reach' = TRUE
    /\ \E created \in BOOLEAN :
         IF created
         THEN /\ client' = "conn"
              /\ handleFailed' = FALSE /\ handleDrained' = TRUE
              /\ fault' = FALSE /\ healthy' = healthy
              /\ failed_data' = Store
              /\ idx' = 1 /\ success_count' = 0 /\ fail_count' = 0
              /\ pc' = IF Store = <<>> THEN "sense" ELSE "drain"
         ELSE /\ client' = "none"
              /\ handleFailed' = FALSE /\ handleDrained' = FALSE
              /\ fault' = TRUE /\ healthy' = FALSE
              /\ NoDrain
              /\ pc' = "sense"
    /\ UNCHANGED fileVars

\* ------------------------------------------------------------ spool drain
\* retry_failed_data, one loop iteration whose send succeeds (lines 344-353,
\* 374).  After the last entry the loop ends with fail_count = 0 and
\* success_count > 0, and clear_failed_data runs (lines 395-396).
RetryFailedDataSent ==
    /\ pc = "drain"
    /\ \E d \in DrainSendDur, w \in DiskOutcomes :
         /\ elapsed' = elapsed + d
         /\ IF idx = Len(failed_data)
            THEN /\ SetFiles(clear_failed_data(mainFile, cwdFile, dirExists, w))
                 /\ pc' = "sense"
            ELSE /\ UNCHANGED fileVars
                 /\ pc' = "drain"
    /\ delivered' = Acked(delivered, failed_data[idx])
    /\ success_count' = success_count + 1
    /\ idx' = idx + 1
    /\ saveRun' = <<>>
    /\ UNCHANGED <<cycle, client, points_data, failed_data, fail_count, swrVars,
                   sends, spooled, swr_result, handleFailed, handleDrained,
                   reach, fault, outageRun, healthy, budget, timely>>
    /\ UNCHANGED cadVars
    /\ UNCHANGED <<pureVars, wrap>>

\* retry_failed_data, the iteration whose send fails (lines 354-371): the
\* unsent suffix is written back and the loop is left.  The caller's client
\* is not touched.
RetryFailedDataFailed ==
    /\ pc = "drain"
    /\ \E d \in DrainSendDur, w \in DiskOutcomes :
         /\ elapsed' = elapsed + d
         /\ SetFiles(write_remaining(failed_data, idx, mainFile, cwdFile,
                                     dirExists, w))
    /\ fail_count' = fail_count + 1
    /\ handleFailed' = TRUE
    /\ fault' = TRUE /\ healthy' = FALSE
    /\ pc' = "sense"
    /\ UNCHANGED <<cycle, client, points_data, failed_data, idx, success_count,
                   swrVars, delivered, sends, spooled, swr_result,
                   handleDrained, reach, outageRun, budget, timely,
                   saveRun>>
    /\ UNCHANGED cadVars
    /\ UNCHANGED <<pureVars, wrap>>

\* ------------------------------------------------------------ sensing
\* Lines 451-568: sensor reads, compensation, sanitizing and batch building.
\* The batch is non-empty iff at least one metric has a value.
Sense ==
    /\ pc = "sense"
    /\ \E ne \in BOOLEAN, d \in SenseDur :
         /\ points_data' = ne
         /\ healthy' = (healthy /\ ne)
         /\ elapsed' = elapsed + d
    /\ pc' = "deliver"
    /\ UNCHANGED <<cycle, client, drainVars, swrVars, fileVars, delivered,
                   sends, spooled, swr_result, handleFailed, handleDrained,
                   reach, fault, outageRun, budget, timely,
                   saveRun>>
    /\ UNCHANGED cadVars
    /\ UNCHANGED <<pureVars, wrap>>

\* Variant of SenseException: no handler catches the exception and the
\* process ends.
SenseExceptionUncaught ==
    /\ pc = "sense"
    /\ \E d \in SenseDur : elapsed' = elapsed + d
    /\ healthy' = FALSE
    /\ pc' = "stopped"
    /\ UNCHANGED <<cycle, client, points_data, drainVars, swrVars, fileVars,
                   delivered, sends, spooled, swr_result, handleFailed,
                   handleDrained, reach, fault, outageRun, budget, timely,
                   saveRun>>
    /\ UNCHANGED cadVars
    /\ UNCHANGED <<pureVars, wrap>>

\* An exception escapes the sensing block (for instance get_cpu_temp, line
\* 71, called unguarded at line 459) and is caught at line 605.
SenseException ==
    /\ pc = "sense"
    /\ \E d \in SenseDur : elapsed' = elapsed + d
    /\ healthy' = FALSE
    /\ pc' = "exc"
    /\ UNCHANGED <<cycle, client, points_data, drainVars, swrVars, fileVars,
                   delivered, sends, spooled, swr_result, handleFailed,
                   handleDrained, reach, fault, outageRun, budget, timely,
                   saveRun>>
    /\ UNCHANGED cadVars
    /\ UNCHANGED <<pureVars, wrap>>

\* ------------------------------------------------------------ delivery
\* The main loop's call save_failed_data(points_data, timestamp).
SpoolBatch ==
    /\ \E mk \in (IF dirExists THEN {TRUE} ELSE BOOLEAN), w \in DiskOutcomes :
         SetFiles(save_failed_data(cycle, mainFile, cwdFile, dirExists, mk, w))
    /\ spooled' = TRUE
    /\ saveRun' = Saved(saveRun, cycle)

\* Variant of max_send_time: the safety margin is not subtracted.
max_send_time_no_margin == INTERVAL_SEC - elapsed

\* max_send_time of line 573.
max_send_time == INTERVAL_SEC - elapsed - SEND_MARGIN

\* Variant of HasBudget: the comparison is inverted.
HasBudgetInverted == max_send_time < 0

\* The test of line 575.
HasBudget == max_send_time > 0

\* Observation: the cycle has reached line 570 with more than the margin left.
BudgetLeft == elapsed + SEND_MARGIN < INTERVAL_SEC

Observe ==
    /\ budget' = BudgetLeft
    /\ timely' = (timely /\ BudgetLeft)

\* Lines 571-576: a batch, a client and a positive budget: send_with_retry is
\* entered (its client is not None, so lines 189-193 are skipped).
DeliverSend ==
    /\ pc = "deliver"
    /\ points_data /\ client = "conn"
    /\ HasBudget
    /\ max_time' = max_send_time
    /\ attempt' = 0 /\ swr_elapsed' = 0
    /\ Observe
    /\ pc' = "swr"
    /\ UNCHANGED <<cycle, client, elapsed, points_data, drainVars, fileVars,
                   delivered, sends, spooled, swr_result, handleFailed,
                   handleDrained, reach, fault, outageRun, healthy, saveRun>>
    /\ UNCHANGED cadVars
    /\ UNCHANGED <<pureVars, wrap>>

\* Lines 581-584: no time left: the batch is saved without a send.
DeliverSkip ==
    /\ pc = "deliver"
    /\ points_data /\ client = "conn"
    /\ ~HasBudget
    /\ SpoolBatch
    /\ Observe
    /\ pc' = "sleep"
    /\ UNCHANGED <<cycle, client, elapsed, points_data, drainVars, swrVars,
                   delivered, sends, swr_result, handleFailed, handleDrained,
                   reach, fault, outageRun, healthy>>
    /\ UNCHANGED cadVars
    /\ UNCHANGED <<pureVars, wrap>>

\* Lines 585-588: a batch but no client: the batch is saved.
DeliverNoClient ==
    /\ pc = "deliver"
    /\ points_data /\ client = "none"
    /\ SpoolBatch
    /\ Observe
    /\ pc' = "sleep"
    /\ UNCHANGED <<cycle, client, elapsed, points_data, drainVars, swrVars,
                   delivered, sends, swr_result, handleFailed, handleDrained,
                   reach, fault, outageRun, healthy>>
    /\ UNCHANGED cadVars
    /\ UNCHANGED <<pureVars, wrap>>

\* Lines 571, 585: an empty batch is neither sent nor saved.
DeliverEmpty ==
    /\ pc = "deliver"
    /\ ~points_data
    /\ Observe
    /\ pc' = "sleep"
    /\ UNCHANGED <<cycle, client, elapsed, points_data, drainVars, swrVars,
                   fileVars, delivered, sends, spooled, swr_result,
                   handleFailed, handleDrained, reach, fault, outageRun,
                   healthy, saveRun>>
    /\ UNCHANGED cadVars
    /\ UNCHANGED <<pureVars, wrap>>

\* ------------------------------------------------------------ send_with_retry
\* Variant of SwrTimeout: the caller does not save the batch.
SwrTimeoutDropsBatch ==
    /\ pc = "swr"
    /\ swr_elapsed >= max_time
    /\ swr_result' = "false"
    /\ pc' = "sleep"
    /\ UNCHANGED <<cycle, client, elapsed, points_data, drainVars, swrVars,
                   fileVars, delivered, sends, spooled, saveRun, handleFailed,
                   handleDrained, reach, fault, outageRun, healthy, budget,
                   timely>>
    /\ UNCHANGED cadVars
    /\ UNCHANGED <<pureVars, wrap>>

\* Lines 196-200: the deadline check at the top of an attempt; the caller
\* (lines 577-580) saves the batch.
SwrTimeout ==
    /\ pc = "swr"
    /\ swr_elapsed >= max_time
    /\ swr_result' = "false"
    /\ SpoolBatch
    /\ pc' = "sleep"
    /\ UNCHANGED <<cycle, client, elapsed, points_data, drainVars, swrVars,
                   delivered, sends, handleFailed, handleDrained, reach, fault,
                   outageRun, healthy, budget, timely>>
    /\ UNCHANGED cadVars
    /\ UNCHANGED <<pureVars, wrap>>

\* Lines 203-204: the write is acknowledged.
SwrSendOk ==
    /\ pc = "swr"
    /\ swr_elapsed < max_time
    /\ client = "conn"
    /\ \E d \in SendDur :
         /\ swr_elapsed' = swr_elapsed + d
         /\ elapsed' = elapsed + d
    /\ sends' = sends + 1
    /\ delivered' = Acked(delivered, cycle)
    /\ swr_result' = "true"
    /\ pc' = "sleep"
    /\ UNCHANGED <<cycle, client, points_data, drainVars, attempt, max_time,
                   fileVars, spooled, handleFailed, handleDrained, reach,
                   fault, outageRun, healthy, budget, timely,
                   saveRun>>
    /\ UNCHANGED cadVars
    /\ UNCHANGED <<pureVars, wrap>>

\* Variant of MoreAttempts: the bound is off by one.
MoreAttemptsOffByOne(a) == a < MAX_RETRIES

\* The test of lines 207 and 228: another attempt follows attempt a.
MoreAttempts(a) == a < MAX_RETRIES - 1

\* Lines 205-206 and 222-224: send_to_influxdb returns False (a failed write,
\* or client is None after a failed reconnection: the AttributeError is caught
\* inside send_to_influxdb).  The handle is dropped; before the last attempt
\* the backoff follows, after it send_with_retry returns (False, None) and the
\* caller saves the batch.
SwrSendFail ==
    /\ pc = "swr"
    /\ swr_elapsed < max_time
    /\ \E d \in (IF client = "conn" THEN SendDur ELSE {0}) :
         /\ swr_elapsed' = swr_elapsed + d
         /\ elapsed' = elapsed + d
    /\ sends' = sends + 1
    /\ client' = "none"
    /\ handleFailed' = FALSE /\ handleDrained' = FALSE
    /\ fault' = TRUE /\ healthy' = FALSE
    /\ IF MoreAttempts(attempt)
       THEN /\ pc' = "backoff"
            /\ UNCHANGED <<fileVars, spooled, saveRun, swr_result>>
       ELSE /\ swr_result' = "false"
            /\ SpoolBatch
            /\ pc' = "sleep"
    /\ UNCHANGED <<cycle, points_data, drainVars, attempt, max_time, delivered,
                   reach, outageRun, budget, timely>>
    /\ UNCHANGED cadVars
    /\ UNCHANGED <<pureVars, wrap>>

\* Variant of BackoffSleep: the sleep is RETRY_DELAY whatever remains.
BackoffSleepFixed(r) == RETRY_DELAY

\* The sleep of lines 208-214 for a remaining budget r.
BackoffSleep(r) ==
    IF r > RETRY_DELAY THEN RETRY_DELAY
    ELSE IF r > 0 THEN r
    ELSE 0

\* Lines 207-216: the backoff between two attempts.
SwrBackoff ==
    /\ pc = "backoff"
    /\ swr_elapsed' = swr_elapsed + BackoffSleep(max_time - swr_elapsed)
    /\ elapsed' = elapsed + BackoffSleep(max_time - swr_elapsed)
    /\ pc' = "reconnect"
    /\ UNCHANGED <<cycle, client, points_data, drainVars, attempt, max_time,
                   fileVars, obsVars>>
    /\ slept' = BackoffSleep(max_time - swr_elapsed)
    /\ UNCHANGED <<aborted, interrupted, last_sleep>>
    /\ UNCHANGED <<pureVars, wrap>>

\* Lines 218-221: a new client is created (or not) and the next attempt
\* starts; the spool is not drained here.
SwrReconnect ==
    /\ pc = "reconnect"
    /\ \E created \in BOOLEAN :
         client' = IF created THEN "conn" ELSE "none"
    /\ handleFailed' = FALSE /\ handleDrained' = FALSE
    /\ attempt' = attempt + 1
    /\ pc' = "swr"
    /\ UNCHANGED <<cycle, elapsed, points_data, drainVars, max_time,
                   swr_elapsed, fileVars, delivered, sends, spooled,
                   swr_result, reach, fault, outageRun, healthy, budget,
                   timely, saveRun>>
    /\ UNCHANGED cadVars
    /\ UNCHANGED <<pureVars, wrap>>

\* ------------------------------------------------------------ cadence
\* sleep_time of lines 593 and 612.
sleep_time == INTERVAL_SEC - elapsed

\* Variant of NormalSleep: the minimum wait of the exception handler.
NormalSleepMinimum(st) == IF st > 0 THEN st ELSE 1

\* Lines 595-598: the sleep after a normal iteration.
NormalSleep(st) == IF st > 0 THEN st ELSE 0

\* Variant of ExcSleepTime: the rule of the normal iteration.
ExcSleepTimeNone(st) == IF st > 0 THEN st ELSE 0

\* Lines 614-617: the sleep after an iteration ended by an exception.
ExcSleepTime(st) == IF st > 0 THEN st ELSE 1

\* Lines 590-600: sleep until the period is over, or not at all.
Sleep ==
    /\ pc = "sleep"
    /\ outageRun' = IF ~reach /\ points_data
                    THEN (IF outageRun < 3 THEN outageRun + 1 ELSE 3)
                    ELSE 0
    /\ pc' = "start"
    /\ UNCHANGED <<cycle, client, elapsed, points_data, drainVars, swrVars,
                   fileVars, delivered, sends, spooled, swr_result,
                   handleFailed, handleDrained, reach, fault, healthy, budget,
                   timely, saveRun>>
    /\ last_sleep' = NormalSleep(sleep_time)
    /\ aborted' = FALSE
    /\ UNCHANGED <<interrupted, slept>>
    /\ UNCHANGED <<pureVars, wrap>>

\* Lines 605-617: the handler of an exception raised inside the iteration.
ExcSleep ==
    /\ pc = "exc"
    /\ outageRun' = 0
    /\ pc' = "start"
    /\ UNCHANGED <<cycle, client, elapsed, points_data, drainVars, swrVars,
                   fileVars, delivered, sends, spooled, swr_result,
                   handleFailed, handleDrained, reach, fault, healthy, budget,
                   timely, saveRun>>
    /\ last_sleep' = ExcSleepTime(sleep_time)
    /\ aborted' = TRUE
    /\ UNCHANGED <<interrupted, slept>>
    /\ UNCHANGED <<pureVars, wrap>>

\* Lines 602-604: KeyboardInterrupt, raised at any point of the iteration
\* (no handler below the loop catches it: they catch Exception), ends the
\* loop; raised during the sleep of lines 614-617 it ends the process.
Interrupt ==
    /\ pc # "stopped"
    /\ pc' = "stopped"
    /\ interrupted' = TRUE
    /\ UNCHANGED <<cycle, client, elapsed, points_data, drainVars, swrVars,
                   fileVars, obsVars, aborted, last_sleep, slept>>
    /\ UNCHANGED <<pureVars, wrap>>

\* ------------------------------------------------------------ specification
Next ==
    \/ CycleStartUnreachable
    \/ CycleStartConnected
    \/ CycleStartReconnect
    \/ RetryFailedDataSent
    \/ RetryFailedDataFailed
    \/ Sense
    \/ SenseException
    \/ DeliverSend
    \/ DeliverSkip
    \/ DeliverNoClient
    \/ DeliverEmpty
    \/ SwrTimeout
    \/ SwrSendOk
    \/ SwrSendFail
    \/ SwrBackoff
    \/ SwrReconnect
    \/ Sleep
    \/ ExcSleep
    \/ Interrupt

Spec == Init /\ [][Next]_vars

\* Any storage condition: the directory of FAILED_DATA_FILE may be missing
\* (then the file is missing too) and operations may fail.
InitStorage ==
    /\ InitProgram
    /\ InitSanitize
    /\ InitMedian
    /\ mainFile \in InitialFiles
    /\ cwdFile \in InitialFiles
    /\ dirExists \in BOOLEAN
    /\ ~dirExists => mainFile = NoFile
    /\ diskFaults \in BOOLEAN
    /\ st_call = NoStorageCall
    /\ wrap = FALSE

\* The main loop running forever: the loop always takes its next step unless
\* it is interrupted.
SpecLive == InitLive /\ [][Next]_vars /\ WF_vars(Next)

\* The sanitizer on its own: any sequence of calls.
SpecSanitize == Init /\ [][NextSanitize]_vars

\* One call of median_read.
SpecMedian == Init /\ [][NextMedian]_vars

\* The spool functions on their own: any sequence of calls.
SpecStorage == InitStorage /\ [][NextStorage]_vars

TypeOK ==
    /\ pc \in {"start", "drain", "sense", "deliver", "swr", "backoff",
               "reconnect", "sleep", "exc", "stopped"}
    /\ cycle \in 0..MaxCycles
    /\ client \in {"none", "conn"}
    /\ Len(Store) <= MAX_FAILED_ENTRIES

\* ------------------------------------------------------------ helpers of the properties

\* ------------------------------------------------------------ properties
\* C1: the drain sends the stored entries in insertion order (after j
\* successful sends the database has received entries 1..j of the loaded
\* list, in that order), and when the send of the entry at position k fails
\* the drain stops and the store holds exactly entries k..end in their
\* original order, entries 1..k-1 being gone.
C1_DrainPartialFailure ==
    /\ pc = "drain" =>
         /\ success_count = idx - 1
         /\ idx <= Len(failed_data)
         /\ Len(delivered) >= idx - 1
         /\ \A j \in 1..(idx - 1) :
              delivered[Len(delivered) - (idx - 1) + j] = failed_data[j]
    /\ (pc \in {"sense", "deliver"} /\ fail_count > 0) =>
         /\ fail_count = 1
         /\ Len(Store) = Len(failed_data) - idx + 1
         /\ \A j \in 1..Len(Store) : Store[j] = failed_data[idx + j - 1]
         /\ Len(delivered) >= idx - 1
         /\ \A j \in 1..(idx - 1) :
              delivered[Len(delivered) - (idx - 1) + j] = failed_data[j]

\* Witness of C1: entry 2 of 3 failed; entry 1 was delivered and is gone,
\* entries 2 and 3 remain in order.
C1_Witness ==
    /\ pc = "sense" /\ fail_count = 1
    /\ Len(failed_data) = 3 /\ idx = 2
    /\ Store = <<failed_data[2], failed_data[3]>>
    /\ delivered[Len(delivered)] = failed_data[1]

\* The current cycle follows three consecutive cycles whose probe failed and
\* which each built a batch; its own probe succeeded, no client creation and
\* no send failed in it, and it built a batch.
RecoveryCycle ==
    /\ outageRun = 3 /\ reach /\ ~fault /\ points_data

\* C2 as stated: after three unreachable cycles the three batches are the
\* newest entries of the store, in cycle order; at the end of a fourth cycle
\* that is reachable with every send succeeding, the three batches and then
\* the fourth have been acknowledged, in that order, and the store is empty.
C2_AsStated ==
    /\ (pc = "start" /\ outageRun = 3) =>
         LastN(Store, 3) = <<cycle - 2, cycle - 1, cycle>>
    /\ (pc = "sleep" /\ RecoveryCycle) =>
         /\ Store = <<>>
         /\ LastN(delivered, 4) = <<cycle - 3, cycle - 2, cycle - 1, cycle>>

\* C2 (amended): the same, provided the fourth cycle reaches the send step
\* with more than the 5 s margin of its period left.
C2_OutageRecovery ==
    /\ (pc = "start" /\ outageRun = 3) =>
         LastN(Store, 3) = <<cycle - 2, cycle - 1, cycle>>
    /\ (pc = "sleep" /\ RecoveryCycle /\ budget) =>
         /\ Store = <<>>
         /\ LastN(delivered, 4) = <<cycle - 3, cycle - 2, cycle - 1, cycle>>
         /\ sends = 1 /\ ~spooled

\* Witness of C2: the end of the recovery cycle, in time, spool drained.
C2_Witness ==
    /\ pc = "sleep" /\ RecoveryCycle /\ budget
    /\ cycle = 4
    /\ delivered = <<1, 2, 3, 4>>
    /\ success_count = 3
    /\ Store = <<>>

\* C3: the store never holds more than MAX_FAILED_ENTRIES entries, and after
\* more than MAX_FAILED_ENTRIES saves in a row (no entry removed in between)
\* it holds exactly MAX_FAILED_ENTRIES entries: the most recently saved ones,
\* in arrival order.
C3_Capacity ==
    /\ Len(Store) <= MAX_FAILED_ENTRIES
    /\ Len(saveRun) > MAX_FAILED_ENTRIES =>
         /\ Len(Store) = MAX_FAILED_ENTRIES
         /\ \A j \in 1..MAX_FAILED_ENTRIES :
              Store[j] = saveRun[Len(saveRun) - MAX_FAILED_ENTRIES + j]

\* Witness of C3: one save more than the capacity; the oldest entry is gone.
C3_Witness ==
    /\ Len(saveRun) = MAX_FAILED_ENTRIES + 1
    /\ Len(Store) = MAX_FAILED_ENTRIES
    /\ saveRun[1] \notin Range(Store)
    /\ Store[MAX_FAILED_ENTRIES] = cycle

\* C4: an entry leaves the store only once the database has acknowledged that
\* very entry, or as the oldest entry when a save exceeds the capacity; the
\* entries that stay keep their order; and an entry is re-delivered only when
\* every older entry of the loaded list has been re-delivered before it.
C4_RemovalAndOrder ==
    [][ /\ \A e \in Range(Store) \ Range(Store') :
              \/ e \in Range(delivered')
              \/ /\ spooled' /\ ~spooled
                 /\ Len(Store) = MAX_FAILED_ENTRIES
                 /\ e = Store[1]
        /\ \A i, j \in 1..Len(Store') :
              (i < j /\ Store'[i] \in Range(Store) /\ Store'[j] \in Range(Store))
                => \E a, b \in 1..Len(Store) :
                      a < b /\ Store[a] = Store'[i] /\ Store[b] = Store'[j]
        /\ (pc = "drain" /\ delivered' # delivered) =>
              /\ delivered' = Append(delivered, failed_data[idx])
              /\ \A j \in 1..(idx - 1) : failed_data[j] \in Range(delivered)
              /\ \A j \in 1..Len(Store) :
                    Store[j] < failed_data[idx] => Store[j] \in Range(delivered)
      ]_vars

\* Witness of C4: a drain delivered the two oldest entries, failed on the
\* third, and only the third is left.
C4_Witness ==
    /\ pc = "sense" /\ fail_count = 1 /\ idx = 3
    /\ Len(Store) = 1
    /\ failed_data[1] \in Range(delivered)
    /\ failed_data[2] \in Range(delivered)
    /\ Store[1] = failed_data[3]

\* C5 as stated: the current batch is sent only on a connection whose
\* creation triggered a spool drain (retry_failed_data was called for it).
C5_AsStated ==
    (pc = "swr" /\ swr_elapsed < max_time /\ client = "conn") => handleDrained

\* C6 as stated: while every cycle has been reachable, without a failed send
\* or client creation, and with a non-empty batch, the store is empty, and at
\* the end of each cycle exactly one send was made and the batches of all
\* cycles have been acknowledged once each, in order.
C6_AsStated ==
    healthy =>
        /\ Store = <<>>
        /\ sends <= 1
        /\ pc = "sleep" =>
             /\ sends = 1
             /\ Len(delivered) = cycle
             /\ \A i \in 1..cycle : delivered[i] = i

\* C6 (amended): the same, provided every cycle reaches the send step with
\* more than the 5 s margin of its period left.
C6_HealthyPath ==
    (healthy /\ timely) =>
        /\ Store = <<>>
        /\ sends <= 1
        /\ pc = "sleep" =>
             /\ sends = 1
             /\ Len(delivered) = cycle
             /\ \A i \in 1..cycle : delivered[i] = i

\* Witness of C6: the end of the third healthy cycle.
C6_Witness ==
    /\ pc = "sleep" /\ healthy /\ timely
    /\ cycle = 3 /\ sends = 1
    /\ delivered = <<1, 2, 3>>

\* C7: when a batch reaches the send step with INTERVAL_SEC - elapsed - 5 <= 0,
\* the step (unless interrupted) makes no send attempt, ends the delivery, and appends the batch to
\* the store (oldest entry evicted at the cap).
C7_DeadlineSkip ==
    [][ (pc = "deliver" /\ points_data /\ pc' # "stopped"
         /\ INTERVAL_SEC - elapsed - SEND_MARGIN <= 0)
        => /\ pc' = "sleep"
           /\ sends' = 0 /\ sends = 0
           /\ delivered' = delivered
           /\ spooled'
           /\ Len(Store') >= 1
           /\ Store'[Len(Store')] = cycle
           /\ \A j \in 1..(Len(Store') - 1) :
                 Store'[j] = Store[Len(Store) - (Len(Store') - 1) + j]
      ]_vars

\* Witness of C7: a connected cycle whose budget was used up before the send
\* step; the batch is the newest entry of the store and was never sent.
C7_Witness ==
    /\ pc = "sleep" /\ client = "conn" /\ points_data
    /\ INTERVAL_SEC - elapsed - SEND_MARGIN <= 0
    /\ max_time = 0
    /\ sends = 0 /\ spooled
    /\ Store[Len(Store)] = cycle
    /\ cycle \notin Range(delivered)

\* C8: send_with_retry makes at most MAX_RETRIES calls of send_to_influxdb and
\* returns; when all attempts are used up without an acknowledgement it has
\* returned False (and the caller has saved the batch).
C8_BoundedRetries ==
    /\ sends <= MAX_RETRIES
    /\ pc \in {"swr", "backoff", "reconnect"} =>
         /\ attempt <= MAX_RETRIES - 1
         /\ sends <= attempt + 1
         /\ swr_result = "none"
    /\ (pc = "sleep" /\ max_time > 0) =>
         /\ swr_result \in {"true", "false"}
         /\ (swr_result = "true") = (cycle \in Range(delivered))
         /\ swr_result = "false" => spooled
    /\ (pc = "sleep" /\ sends = MAX_RETRIES /\ cycle \notin Range(delivered)) =>
         swr_result = "false"

\* Witness of C8: all attempts were made and failed; the call returned False.
C8_Witness ==
    /\ pc = "sleep" /\ sends = MAX_RETRIES
    /\ swr_result = "false" /\ client = "none"
    /\ cycle \notin Range(delivered)
    /\ spooled

\* C9 as stated: no reconnection attempt is started in send_with_retry once
\* the remaining time max_time - elapsed is <= 0.
C9_AsStated ==
    pc = "reconnect" => max_time - swr_elapsed > 0

\* C10 as stated: a handle on which a send has failed is no longer held.
C10_AsStated ==
    client = "conn" => ~handleFailed

\* C11: the loop ends only by KeyboardInterrupt, and an iteration in which
\* an exception was raised is followed by the exception handler's sleep and
\* then by the start of the next iteration, the program state being kept.
C11_LoopContinues ==
    [][ /\ pc' = "stopped" => interrupted'
        /\ (pc = "exc" /\ ~interrupted') =>
              /\ pc' = "start" /\ aborted'
              /\ cycle' = cycle /\ client' = client
              /\ Store' = Store
      ]_vars

\* Witness of C11: the iteration after one ended by an exception has reached
\* its send step.
C11_Witness ==
    /\ pc = "deliver" /\ aborted /\ ~interrupted
    /\ cycle = 2 /\ points_data

\* C12: every value sanitize returns is absent or lies in [min, max] of its
\* metric, and a returned candidate (a newly accepted value) differs from the
\* previously accepted value of the metric by at most max_step, unless it is
\* the first accepted one.
C12_SanitizerOutput ==
    san_call.name \in Metrics =>
        LET a == SanitizeArgs[san_call.name]
        IN  /\ \/ san_call.ret.t = "None"
               \/ /\ san_call.ret.t = "num"
                  /\ a.min_v <= san_call.ret.v /\ san_call.ret.v <= a.max_v
            /\ (san_call.ret.t = "num" /\ san_call.ret = san_call.new
                /\ san_call.old.t = "num")
                 => Abs(san_call.new.v - san_call.old.v) <= a.max_step
            /\ \A n \in Metrics :
                 \/ last_good[n].t = "None"
                 \/ /\ last_good[n].t = "num"
                    /\ SanitizeArgs[n].min_v <= last_good[n].v
                    /\ last_good[n].v <= SanitizeArgs[n].max_v

\* Witness of C12: a second value of a metric was accepted within the step.
C12_Witness ==
    /\ san_call = [name |-> "humidity", new |-> Num(6), old |-> Num(3),
                   ret |-> Num(6)]
    /\ last_good["humidity"] = Num(6)

\* C13: _last_good holds, per metric, the most recent candidate that passed
\* all rules (absent if none did); a call whose candidate is rejected returns
\* the previous value and changes no metric's state; a call changes no other
\* metric's state.
C13_SanitizerState ==
    [][ LET c == san_call'
        IN  c.name \in Metrics =>
              /\ last_good' = accepted'
              /\ c.old = last_good[c.name]
              /\ \A n \in Metrics \ {c.name} : last_good'[n] = last_good[n]
              /\ IF Passes(last_good[c.name], c.new, SanitizeArgs[c.name])
                 THEN /\ c.ret = c.new
                      /\ last_good'[c.name] = c.new
                 ELSE /\ c.ret = last_good[c.name]
                      /\ last_good' = last_good
      ]_vars

\* Witness of C13: a humidity candidate was rejected for its step; the call
\* returned the previous value and both metrics kept their state.
C13_Witness ==
    /\ san_call = [name |-> "humidity", new |-> Num(7), old |-> Num(3),
                   ret |-> Num(3)]
    /\ last_good["humidity"] = Num(3)
    /\ last_good["pressure"] = Num(801)

\* C14 as stated: after save_failed_data on writable storage the store is
\* the previous store followed by the new entry, cut to the newest
\* MAX_FAILED_ENTRIES, both when the directory of the spool file exists and
\* when it is missing and created by the call.
C14_AsStated ==
    (st_call.fn = "save" /\ st_call.w /\ (st_call.dir \/ st_call.mk))
      => Store = LastN(Append(st_call.before, st_call.entry),
                       MAX_FAILED_ENTRIES)

\* C15: save_failed_data, load_failed_data and clear_failed_data return
\* normally under every storage condition, and load_failed_data returns the
\* empty list when the file it reads is corrupt, unreadable or not a list.
C15_FaultsContained ==
    /\ st_call.raised = "none"
    /\ (st_call.fn = "load"
        /\ (IF mainFile.kind # "absent" THEN mainFile.kind ELSE cwdFile.kind)
             \in {"corrupt", "unreadable", "nonlist"})
         => st_call.ret = <<>>

\* Witness of C15: load_failed_data was called on a file that cannot be read,
\* where storage operations can fail.
C15_Witness ==
    /\ st_call.fn = "load" /\ st_call.ret = <<>>
    /\ mainFile.kind = "unreadable"
    /\ diskFaults

\* C16: after an iteration that completes without exception and took w
\* seconds, the sleep is INTERVAL_SEC - w when w < INTERVAL_SEC, so that the
\* next cycle starts INTERVAL_SEC after this one started, and zero when
\* w >= INTERVAL_SEC; the next cycle is the following one (none is skipped)
\* and starts only after this one has ended.
C16_Cadence ==
    [][ /\ (pc = "sleep" /\ pc' = "start") =>
              /\ cycle' = cycle /\ elapsed' = elapsed /\ ~aborted'
              /\ IF elapsed < INTERVAL_SEC
                 THEN /\ last_sleep' = INTERVAL_SEC - elapsed
                      /\ elapsed + last_sleep' = INTERVAL_SEC
                 ELSE last_sleep' = 0
        /\ cycle' # cycle =>
              /\ pc = "start"
              /\ cycle' = cycle + 1
              /\ elapsed' = 0
      ]_vars

\* Witness of C16: an iteration overran the period without an exception and
\* the loop is about to start the next cycle after a sleep of zero.
C16_Witness ==
    /\ pc = "start" /\ ~aborted /\ ~interrupted
    /\ elapsed > INTERVAL_SEC
    /\ last_sleep = 0

\* C17 as stated: the batches acknowledged by the database arrive in
\* non-decreasing order of their cycle, and no acknowledged batch is newer
\* than a batch still held in the spool.
C17_AsStated ==
    /\ \A i \in 1..Len(delivered) : \A j \in i..Len(delivered) :
         delivered[i] <= delivered[j]
    /\ \A d \in Range(delivered) : \A e \in Range(Store) : d <= e

\* C18: when the five reads of median_read all give valid values and at
\* least three of them lie in an interval [a, b], the returned value lies in
\* [a, b]; when no read gives a valid sample the result is None.
C18_MedianCluster ==
    med_ret # Pending =>
        /\ (\A i \in 1..MEDIAN_N : med_reads[i].t = "num") =>
              \A a \in SampleValues : \A b \in SampleValues :
                 (a <= b /\ Cardinality({i \in 1..MEDIAN_N :
                                a <= med_reads[i].v /\ med_reads[i].v <= b}) >= 3)
                   => (med_ret.t = "num" /\ a <= med_ret.v /\ med_ret.v <= b)
        /\ (\A i \in 1..MEDIAN_N : med_reads[i].t # "num") => med_ret = None

\* Witness of C18: three reads within [2, 4] and two outliers, read first and
\* fourth; the result is in [2, 4].
C18_Witness ==
    /\ med_reads = <<Num(20), Num(2), Num(4), Num(20), Num(2)>>
    /\ med_ret = Num(4)

\* C19: the backoff sleep of send_with_retry is RETRY_DELAY when more than
\* RETRY_DELAY remains before the deadline, the remaining time when
\* 0 < remaining <= RETRY_DELAY, and zero when nothing remains; a sleep never
\* ends after the deadline.
C19_BackoffBound ==
    [][ (pc = "backoff" /\ pc' = "reconnect") =>
          LET remaining == max_time - swr_elapsed
              d == swr_elapsed' - swr_elapsed
          IN  /\ slept' = d
              /\ remaining > RETRY_DELAY => d = RETRY_DELAY
              /\ (0 < remaining /\ remaining <= RETRY_DELAY) => d = remaining
              /\ remaining <= 0 => d = 0
              /\ d > 0 => swr_elapsed' <= max_time
      ]_vars

\* Witness of C19: a backoff slept the one second that remained and ended at
\* the deadline.
C19_Witness ==
    /\ pc = "reconnect"
    /\ slept = 1
    /\ swr_elapsed = max_time

\* C20 as stated: after an iteration aborted by an exception the loop sleeps
\* INTERVAL_SEC - elapsed when that is positive and does not sleep otherwise.
C20_AsStated ==
    (pc = "start" /\ aborted /\ last_sleep # -1) =>
        last_sleep = (IF INTERVAL_SEC - elapsed > 0
                      THEN INTERVAL_SEC - elapsed ELSE 0)

\* C20: after an iteration aborted by an exception the loop sleeps
\* INTERVAL_SEC - elapsed when that is positive and one second otherwise.
C20_ExceptionSleep ==
    (pc = "start" /\ aborted /\ last_sleep # -1) =>
        last_sleep = (IF INTERVAL_SEC - elapsed > 0
                      THEN INTERVAL_SEC - elapsed ELSE 1)

\* Witness of C20: an exception ended an iteration that had already overrun
\* the period; the handler slept one second.
C20_Witness ==
    /\ pc = "start" /\ aborted /\ ~interrupted
    /\ elapsed >= INTERVAL_SEC
    /\ last_sleep = 1

\* The database is reachable and every send succeeds: the probe of the
\* current cycle succeeded, no client creation and no send has failed in it,
\* the cycle ends with its batch acknowledged, no exception ended the last
\* iteration, and the loop has not been interrupted.
LinkGood ==
    /\ reach /\ ~fault
    /\ pc = "sleep" => swr_result = "true"
    /\ pc # "exc" /\ ~aborted
    /\ ~interrupted

\* C21 as stated: if from some point on the database stays reachable and
\* every send succeeds, the spool eventually becomes empty; that is, the
\* spool is empty, or something fails, again and again.
C21_AsStated ==
    []<>(~LinkGood \/ Store = <<>>)

\* C22: at the end of a cycle that built a non-empty batch and raised no
\* exception, the batch has been acknowledged by the database or given to
\* save_failed_data, and not both; an empty batch has been neither sent nor
\* given to save_failed_data.
C22_BatchFate ==
    pc = "sleep" =>
        /\ points_data =>
              /\ (cycle \in Range(delivered)) \/ spooled
              /\ ~((cycle \in Range(delivered)) /\ spooled)
              /\ spooled = (cycle \in Range(saveRun))
        /\ ~points_data =>
              /\ sends = 0 /\ ~spooled
              /\ cycle \notin Range(delivered)
              /\ cycle \notin Range(saveRun)

\* Witness of C22: send_with_retry gave up at its deadline after a failed
\* attempt and a reconnection; the batch was saved and never acknowledged.
C22_Witness ==
    /\ pc = "sleep" /\ points_data
    /\ swr_result = "false" /\ client = "conn"
    /\ sends >= 1
    /\ spooled /\ cycle \notin Range(delivered)

====
